---- MODULE Spec2Model ----
(***************************************************************************)
(* Homebrew Channel: the Elevation Patcher (elevate-service.ts) and the    *)
(* Installer & Control Service (service.ts, adapter.ts).                   *)
(*                                                                         *)
(* Text is modelled by what the code looks for in it: a service descriptor *)
(* is a sequence of tokens, a JSON document is its parsed value together   *)
(* with whether its text is what JSON.stringify would print.               *)
(***************************************************************************)
EXTENDS Integers, Sequences, FiniteSets, TLC

VARIABLES
    \* ---- Elevation Patcher (one process per run) ----
    argv,           \* process.argv.slice(2): a sequence of dotted names
    serviceName,    \* main's serviceName, a sequence of segments
    appName,        \* main's appName, a sequence of segments
    fs,             \* the artifacts on disk, by role
    ppc,            \* position of main
    configChanged,  \* main's configChanged
    written,        \* artifacts written by writeFileSync in this run
    rescans,        \* execFile('ls-control', ['scan-services']) calls in this run
    exitCode,       \* process exit status of this run (-1 while running)
    run,            \* number of the current run
    startFs,        \* fs when the current run started
    rescanErr,      \* the rescan callback's err: "none" before it ran, "ok", "err"
    exits,          \* exit statuses of the completed runs
    \* ---- Installer & Control Service (one process) ----
    root,           \* process.getuid() === 0
    idleTimeout,    \* service.activityManager.idleTimeout
    now,            \* Date.now()
    tmp,            \* the staging files under /tmp, by the timestamp in their name
    icall,          \* the install calls: position and locals of each handler
    sent,           \* per install call, what was sent on its message, in order
    toasts,         \* per install call, the createToast calls it made, in order
    elevations,     \* per install call, the argument lists it started elevate-service with
    prefs,          \* names of the files in /var/luna/preferences
    ccall,          \* the getConfiguration / setConfiguration calls
    lastDone,       \* the configuration call that responded last (0: none yet)
    ctl,            \* the exec / spawn / reboot / checkRoot / getAppInfo / getDrmStatus calls
    csent,          \* per such call, what was sent on its message, in order
    busCalls,       \* per such call, the bus calls its handler made, in order
    alive           \* the service process has not died of an uncaught exception

patcherVars == <<argv, serviceName, appName, fs, ppc, configChanged, written,
                 rescans, rescanErr, exitCode, run, startFs, exits>>

installVars == <<root, idleTimeout, now, tmp, icall, sent, toasts, elevations>>

configVars == <<prefs, ccall, lastDone>>

controlVars == <<ctl, csent, busCalls, alive>>

vars == <<patcherVars, installVars, configVars, controlVars>>

notPatcherVars == <<installVars, configVars, controlVars>>

notInstallVars == <<patcherVars, configVars, controlVars>>

notConfigVars == <<patcherVars, idleTimeout, now, tmp, icall, sent, toasts, elevations,
                   controlVars>>

notControlVars == <<patcherVars, idleTimeout, now, tmp, icall, sent, toasts, elevations,
                    configVars>>

\* Number of successive runs of the patcher.
MaxRuns == 2

\* Number of install calls the service receives.
MaxInstalls == 1

\* Progress events of one download.
MaxProgress == 1

\* Number of getConfiguration / setConfiguration calls the service receives.
MaxConfigCalls == 2

\* Fields of one setConfiguration payload.
MaxFields == 1

\* Milliseconds by which the clock advances.
MaxClock == 1

\* Number of exec / spawn / reboot / checkRoot / getAppInfo / getDrmStatus
\* calls the service receives.
MaxControlCalls == 1

\* Chunks of output one spawned command produces.
MaxChunks == 1

\* ------------------------------------------------------------------------
\* Names
\* ------------------------------------------------------------------------

kHomebrewChannelPackageId == <<"org", "webosbrew", "hbchannel">>

DefaultServiceName == kHomebrewChannelPackageId \o <<"service">>

\* serviceName.split('.').slice(0, -1).join('.')
DropLastSegment(name) == IF name = <<>> THEN <<>> ELSE SubSeq(name, 1, Len(name) - 1)

\* main's destructuring of argv with defaults, then the special case.
ResolveNames(args) ==
    LET s == IF Len(args) >= 1 THEN args[1] ELSE DefaultServiceName
        a == IF Len(args) >= 2 THEN args[2] ELSE DropLastSegment(s)
    IN  IF s = kHomebrewChannelPackageId
        THEN [serviceName |-> DefaultServiceName, appName |-> kHomebrewChannelPackageId]
        ELSE [serviceName |-> s, appName |-> a]

\* JavaScript truthiness of a string: '' (and undefined) are falsy.
Truthy(name) == name # <<>>

\* An argument that was not passed (undefined).
Undefined == <<>>

\* ------------------------------------------------------------------------
\* Service descriptors: text as tokens
\*   "usrbin"  the text /usr/bin outside a jailer invocation
\*   "jail"    /usr/bin/jailer -t native_devmode -i <appName> -p <dir>/<serviceName>
\*             for the names of the run
\*   "jailX"   a jailer invocation for other names
\*   "bundled" /media/developer/apps/usr/palm/services/org.webosbrew.hbchannel.service
\*   "undefined" the text undefined
\* ------------------------------------------------------------------------

JailerTokens == {"jail", "jailX"}

\* serviceFileOriginal.includes('jailer')
IncludesJailer(text) == \E i \in 1..Len(text) : text[i] \in JailerTokens

FirstIndex(text, tok) == CHOOSE i \in 1..Len(text) :
                            /\ text[i] = tok
                            /\ \A j \in 1..(i - 1) : text[j] # tok

Occurs(text, tok) == \E i \in 1..Len(text) : text[i] = tok

\* String.prototype.replace(pattern, replacement) with a string pattern:
\* the first occurrence only.
ReplaceFirst(text, tok, by) ==
    IF ~Occurs(text, tok) THEN text
    ELSE LET i == FirstIndex(text, tok)
         IN  SubSeq(text, 1, i - 1) \o by \o SubSeq(text, i + 1, Len(text))

\* patchServiceFile's serviceFileNew: defined is FALSE when no branch assigned it.
ServiceFileNew(text, app, svc) ==
    IF ~IncludesJailer(text)
    THEN [defined |-> TRUE, text |-> ReplaceFirst(text, "usrbin", <<"bundled">>)]
    ELSE IF Truthy(app) /\ Truthy(svc)
         THEN [defined |-> TRUE, text |-> ReplaceFirst(text, "jail", <<>>)]
         ELSE [defined |-> FALSE, text |-> <<>>]

\* serviceFileNew !== serviceFileOriginal (undefined differs from every string)
ServiceFileDiffers(new, original) == ~new.defined \/ new.text # original

\* writeFileSync(serviceFile, undefined): older runtimes write the text
\* "undefined", newer ones throw a TypeError.
WriteUndefinedOutcomes == {"coerce", "throw"}

NoFile == [exists |-> FALSE, text |-> <<>>]

DescriptorFile(text) == [exists |-> TRUE, text |-> text]

\* ------------------------------------------------------------------------
\* Permission files
\* ------------------------------------------------------------------------

NoPerm == [exists |-> FALSE, body |-> "none"]

\* JSON.stringify({ [`${serviceName}*`]: ['all'] })
ClientPermContent == "clientGrant"

\* JSON.stringify({ public: [`${serviceName}/*`] })
ApiPermContent == "apiPublic"

\* EnsurePermFile without the isFile test.
EnsurePermFileOverwrite(file, content) ==
    [file |-> [exists |-> TRUE, body |-> content], wrote |-> TRUE]

\* if (!isFile(f)) writeFileSync(f, content)
EnsurePermFile(file, content) ==
    IF ~file.exists
    THEN [file |-> [exists |-> TRUE, body |-> content], wrote |-> TRUE]
    ELSE [file |-> file, wrote |-> FALSE]

\* ------------------------------------------------------------------------
\* JSON documents: parsed value and whether the text is canonical
\* ------------------------------------------------------------------------

MissingList == [present |-> FALSE, items |-> <<>>]

List(items) == [present |-> TRUE, items |-> items]

\* list.indexOf(x) === -1
NotListed(list, x) == \A i \in 1..Len(list.items) : list.items[i] # x

\* list && list.indexOf(x) === -1  ->  list.push(x)
PushIfNotListed(list, x) ==
    IF list.present /\ NotListed(list, x) THEN List(Append(list.items, x)) ELSE list

NoManifest == [exists |-> FALSE, parsable |-> FALSE, canon |-> FALSE,
               client |-> MissingList, api |-> MissingList]

\* PatchManifest without the indexOf tests: the paths are always pushed.
PatchManifestAlwaysPush(m) ==
    LET c == IF m.client.present THEN List(Append(m.client.items, "clientPermFile"))
             ELSE m.client
        a == IF m.api.present THEN List(Append(m.api.items, "apiPermFile")) ELSE m.api
        differs == ~m.canon \/ c # m.client \/ a # m.api
    IN  [file |-> [m EXCEPT !.canon = TRUE, !.client = c, !.api = a],
         wrote |-> differs]

\* The manifest step: parsed, amended, re-serialized, compared as text.
PatchManifest(m) ==
    LET c == PushIfNotListed(m.client, "clientPermFile")
        a == PushIfNotListed(m.api, "apiPermFile")
        \* JSON.stringify prints canonical text; the original text equals it
        \* only if it was canonical and nothing was pushed.
        differs == ~m.canon \/ c # m.client \/ a # m.api
    IN  [file |-> [m EXCEPT !.canon = TRUE, !.client = c, !.api = a],
         wrote |-> differs]

NoRole == [exists |-> FALSE, parsable |-> FALSE, canon |-> FALSE,
           names |-> MissingList, perms |-> MissingList]

\* permissions elements: "wild" is {service:"*",outbound:["*"],inbound:["*"]},
\* "star" is the string "*", "own" any other record.
\* allowedNames elements: "star" is the string "*", "svc" any other name.

\* array.some(finding => finding === "*"): a record is never === a string.
SomeIsStar(list) == \E i \in 1..Len(list.items) : list.items[i] = "star"

PatchRole(r) ==
    LET n == IF SomeIsStar(r.names) THEN r.names
             ELSE List(Append(r.names.items, "star"))
        p == IF SomeIsStar(r.perms) THEN r.perms
             ELSE List(Append(r.perms.items, "wild"))
        differs == ~r.canon \/ n # r.names \/ p # r.perms
    IN  [file |-> [r EXCEPT !.canon = TRUE, !.names = n, !.perms = p],
         wrote |-> differs]

\* The legacy role file as text: how many times it holds "outbound":[] and
\* "outbound":["*"].
NoLegacyRole == [exists |-> FALSE, empties |-> 0, wilds |-> 0]

\* prvRolesOriginal.replace('"outbound":[]', '"outbound":["*"]')
PatchLegacyRole(r) ==
    IF r.empties > 0
    THEN [file |-> [r EXCEPT !.empties = r.empties - 1, !.wilds = r.wilds + 1],
          wrote |-> TRUE]
    ELSE [file |-> r, wrote |-> FALSE]

\* ------------------------------------------------------------------------
\* Artifacts found on the device when the patcher first runs
\* ------------------------------------------------------------------------

ArgvSamples == {<<>>, <<kHomebrewChannelPackageId>>, << <<"solo">> >>}

ServiceFileSamples == {NoFile, DescriptorFile(<<"usrbin">>), DescriptorFile(<<"jail">>),
                       DescriptorFile(<<"jailX">>)}

LegacyServiceFileSamples == {NoFile, DescriptorFile(<<"usrbin">>), DescriptorFile(<<"jail">>)}

PermFileSamples == {NoPerm, [exists |-> TRUE, body |-> "custom"]}

Manifest(canon, client, api) ==
    [exists |-> TRUE, parsable |-> TRUE, canon |-> canon, client |-> client, api |-> api]

UnparsableManifest == [NoManifest EXCEPT !.exists = TRUE]

ManifestSamples ==
    {NoManifest, UnparsableManifest,
     Manifest(TRUE, List(<<"other">>), List(<<"other">>)),
     Manifest(TRUE, List(<<"clientPermFile">>), List(<<"apiPermFile">>)),
     Manifest(FALSE, List(<<"clientPermFile">>), List(<<"apiPermFile">>)),
     Manifest(TRUE, MissingList, MissingList)}

Role(canon, names, perms) ==
    [exists |-> TRUE, parsable |-> TRUE, canon |-> canon, names |-> names, perms |-> perms]

UnparsableRole == [NoRole EXCEPT !.exists = TRUE]

RoleSamples ==
    {NoRole, UnparsableRole,
     Role(TRUE, List(<<"svc">>), List(<<"own">>)),
     Role(TRUE, List(<<"svc", "star">>), List(<<"own", "wild">>)),
     Role(TRUE, List(<<"svc">>), MissingList),
     Role(TRUE, MissingList, List(<<"own">>)),
     Role(FALSE, List(<<"star">>), List(<<"star">>))}

LegacyRoleSamples == {NoLegacyRole,
                      [exists |-> TRUE, empties |-> 0, wilds |-> 0],
                      [exists |-> TRUE, empties |-> 1, wilds |-> 0]}

Artifacts == {"serviceFile", "clientPermFile", "apiPermFile", "manifestFile", "roleFile",
              "legacyPubServiceFile", "legacyPrvRolesFile"}

\* ------------------------------------------------------------------------
\* The patcher process
\* ------------------------------------------------------------------------

PatcherInit ==
    /\ argv \in ArgvSamples
    /\ serviceName = <<>>
    /\ appName = <<>>
    /\ fs \in [svc : ServiceFileSamples, client : PermFileSamples, api : PermFileSamples,
               manifest : ManifestSamples, role : RoleSamples,
               legacy : LegacyServiceFileSamples, legacyRole : LegacyRoleSamples]
    /\ ppc = "start"
    /\ configChanged = FALSE
    /\ written = {}
    /\ rescans = 0
    /\ rescanErr = "none"
    /\ exitCode = -1
    /\ run = 1
    /\ startFs = fs
    /\ exits = <<>>

\* An exception nothing catches ends the process with status 1.
Throw ==
    /\ ppc' = "exit"
    /\ exitCode' = 1
    /\ exits' = Append(exits, 1)

\* main, lines 42-49
PStart ==
    /\ UNCHANGED notPatcherVars
    /\ ppc = "start"
    /\ serviceName' = ResolveNames(argv).serviceName
    /\ appName' = ResolveNames(argv).appName
    /\ configChanged' = FALSE
    /\ ppc' = "serviceFile"
    /\ UNCHANGED <<argv, fs, written, rescans, rescanErr, exitCode, run, startFs, exits>>

\* patchServiceFile(file, app, svc) on the descriptor stored as field `slot`,
\* recorded as a write of `artifact`; main continues at `next`.
PatchServiceFile(slot, artifact, app, svc, next) ==
    LET original == fs[slot].text
        new == ServiceFileNew(original, app, svc)
    IN  IF ~ServiceFileDiffers(new, original)
        THEN /\ ppc' = next
             /\ UNCHANGED <<fs, written, configChanged, exitCode, exits>>
        ELSE IF new.defined
        THEN /\ fs' = [fs EXCEPT ![slot] = DescriptorFile(new.text)]
             /\ written' = written \cup {artifact}
             /\ configChanged' = TRUE
             /\ ppc' = next
             /\ UNCHANGED <<exitCode, exits>>
        ELSE \E outcome \in WriteUndefinedOutcomes :
                IF outcome = "coerce"
                THEN /\ fs' = [fs EXCEPT ![slot] = DescriptorFile(<<"undefined">>)]
                     /\ written' = written \cup {artifact}
                     /\ configChanged' = TRUE
                     /\ ppc' = next
                     /\ UNCHANGED <<exitCode, exits>>
                ELSE /\ Throw
                     /\ UNCHANGED <<fs, written, configChanged>>

\* main, lines 57-61
PServiceFile ==
    /\ UNCHANGED notPatcherVars
    /\ ppc = "serviceFile"
    /\ IF fs.svc.exists
       THEN PatchServiceFile("svc", "serviceFile", appName, serviceName, "clientPermFile")
       ELSE /\ ppc' = "legacyPubServiceFile"
            /\ UNCHANGED <<fs, written, configChanged, exitCode, exits>>
    /\ UNCHANGED <<argv, serviceName, appName, rescans, rescanErr, run, startFs>>

\* main, lines 63-72
PClientPermFile ==
    /\ UNCHANGED notPatcherVars
    /\ ppc = "clientPermFile"
    /\ LET r == EnsurePermFile(fs.client, ClientPermContent)
       IN  /\ fs' = [fs EXCEPT !.client = r.file]
           /\ written' = IF r.wrote THEN written \cup {"clientPermFile"} ELSE written
           /\ configChanged' = (configChanged \/ r.wrote)
    /\ ppc' = "apiPermFile"
    /\ UNCHANGED <<argv, serviceName, appName, rescans, rescanErr, exitCode, run, startFs, exits>>

\* main, lines 74-83
PApiPermFile ==
    /\ UNCHANGED notPatcherVars
    /\ ppc = "apiPermFile"
    /\ LET r == EnsurePermFile(fs.api, ApiPermContent)
       IN  /\ fs' = [fs EXCEPT !.api = r.file]
           /\ written' = IF r.wrote THEN written \cup {"apiPermFile"} ELSE written
           /\ configChanged' = (configChanged \/ r.wrote)
    /\ ppc' = "manifestFile"
    /\ UNCHANGED <<argv, serviceName, appName, rescans, rescanErr, exitCode, run, startFs, exits>>

\* main, lines 85-107; JSON.parse throws on text that is not JSON
PManifestFile ==
    /\ UNCHANGED notPatcherVars
    /\ ppc = "manifestFile"
    /\ IF ~fs.manifest.exists
       THEN /\ ppc' = "roleFile"
            /\ UNCHANGED <<fs, written, configChanged, exitCode, exits>>
       ELSE IF ~fs.manifest.parsable
       THEN /\ Throw
            /\ UNCHANGED <<fs, written, configChanged>>
       ELSE LET r == PatchManifest(fs.manifest)
            IN  /\ fs' = IF r.wrote THEN [fs EXCEPT !.manifest = r.file] ELSE fs
                /\ written' = IF r.wrote THEN written \cup {"manifestFile"} ELSE written
                /\ configChanged' = (configChanged \/ r.wrote)
                /\ ppc' = "roleFile"
                /\ UNCHANGED <<exitCode, exits>>
    /\ UNCHANGED <<argv, serviceName, appName, rescans, rescanErr, run, startFs>>

\* main, lines 109-147; .some on a missing array throws a TypeError
PRoleFile ==
    /\ UNCHANGED notPatcherVars
    /\ ppc = "roleFile"
    /\ IF ~fs.role.exists
       THEN /\ ppc' = "legacyPubServiceFile"
            /\ UNCHANGED <<fs, written, configChanged, exitCode, exits>>
       ELSE IF ~fs.role.parsable \/ ~fs.role.names.present \/ ~fs.role.perms.present
       THEN /\ Throw
            /\ UNCHANGED <<fs, written, configChanged>>
       ELSE LET r == PatchRole(fs.role)
            IN  /\ fs' = IF r.wrote THEN [fs EXCEPT !.role = r.file] ELSE fs
                /\ written' = IF r.wrote THEN written \cup {"roleFile"} ELSE written
                /\ configChanged' = (configChanged \/ r.wrote)
                /\ ppc' = "legacyPubServiceFile"
                /\ UNCHANGED <<exitCode, exits>>
    /\ UNCHANGED <<argv, serviceName, appName, rescans, rescanErr, run, startFs>>

\* main, lines 155-159: patchServiceFile(legacyPubServiceFile), no names passed
PLegacyPubServiceFile ==
    /\ UNCHANGED notPatcherVars
    /\ ppc = "legacyPubServiceFile"
    /\ IF fs.legacy.exists
       THEN PatchServiceFile("legacy", "legacyPubServiceFile", Undefined, Undefined,
                             "legacyPrvServiceFile")
       ELSE /\ ppc' = "decide"
            /\ UNCHANGED <<fs, written, configChanged, exitCode, exits>>
    /\ UNCHANGED <<argv, serviceName, appName, rescans, rescanErr, run, startFs>>

\* main, lines 161-163: legacyPrvServiceFile is the same path as
\* legacyPubServiceFile (lines 151-152)
PLegacyPrvServiceFile ==
    /\ UNCHANGED notPatcherVars
    /\ ppc = "legacyPrvServiceFile"
    /\ PatchServiceFile("legacy", "legacyPubServiceFile", Undefined, Undefined,
                        "legacyPrvRolesFile")
    /\ UNCHANGED <<argv, serviceName, appName, rescans, rescanErr, run, startFs>>

\* main, lines 165-175
PLegacyPrvRolesFile ==
    /\ UNCHANGED notPatcherVars
    /\ ppc = "legacyPrvRolesFile"
    /\ IF ~fs.legacyRole.exists
       THEN UNCHANGED <<fs, written, configChanged>>
       ELSE LET r == PatchLegacyRole(fs.legacyRole)
            IN  /\ fs' = [fs EXCEPT !.legacyRole = r.file]
                /\ written' = IF r.wrote THEN written \cup {"legacyPrvRolesFile"} ELSE written
                /\ configChanged' = (configChanged \/ r.wrote)
    /\ ppc' = "decide"
    /\ UNCHANGED <<argv, serviceName, appName, rescans, rescanErr, exitCode, run, startFs, exits>>

\* main, lines 178-191: start the rescan, or fall off the end of main
PDecide ==
    /\ UNCHANGED notPatcherVars
    /\ ppc = "decide"
    /\ IF configChanged
       THEN /\ rescans' = rescans + 1
            /\ ppc' = "rescan"
            /\ UNCHANGED <<exitCode, exits>>
       ELSE /\ ppc' = "exit"
            /\ exitCode' = 0
            /\ exits' = Append(exits, 0)
            /\ UNCHANGED rescans
    /\ UNCHANGED <<argv, serviceName, appName, fs, written, configChanged, rescanErr, run,
                   startFs>>

\* the execFile callback, lines 180-188
PRescanDone ==
    /\ UNCHANGED notPatcherVars
    /\ ppc = "rescan"
    /\ \E err \in BOOLEAN :
          /\ rescanErr' = IF err THEN "err" ELSE "ok"
          /\ exitCode' = IF err THEN 1 ELSE 0
          /\ exits' = Append(exits, exitCode')
    /\ ppc' = "exit"
    /\ UNCHANGED <<argv, serviceName, appName, fs, written, configChanged, rescans, run,
                   startFs>>

\* The patcher is started again with the same arguments on the artifacts
\* the previous run left.
PRunAgain ==
    /\ UNCHANGED notPatcherVars
    /\ ppc = "exit"
    /\ run < MaxRuns
    /\ run' = run + 1
    /\ ppc' = "start"
    /\ configChanged' = FALSE
    /\ written' = {}
    /\ rescans' = 0
    /\ rescanErr' = "none"
    /\ exitCode' = -1
    /\ startFs' = fs
    /\ UNCHANGED <<argv, serviceName, appName, fs, exits>>

PatcherNext ==
    \/ PStart
    \/ PServiceFile
    \/ PClientPermFile
    \/ PApiPermFile
    \/ PManifestFile
    \/ PRoleFile
    \/ PLegacyPubServiceFile
    \/ PLegacyPrvServiceFile
    \/ PLegacyPrvRolesFile
    \/ PDecide
    \/ PRescanDone
    \/ PRunAgain

\* ------------------------------------------------------------------------
\* Installer & Control Service: install
\* ------------------------------------------------------------------------

\* The install calls the service can have in progress: MaxInstalls, and one
\* more that arrives while they run.
InstallCalls == 1..(MaxInstalls + 1)

\* service.activityManager.idleTimeout = 1
IdleTimeoutAfterSelfUpdate == 1

\* res.payload.statusValue === 30
InstalledStatusValue == 30

\* The idle timeout the service library starts with.
InitialIdleTimeouts == {5}

\* Downloaded bytes.
Bodies == {"ipkA", "ipkB"}

\* createHash('sha256', {encoding: 'hex'}): lower-case hex of the file's bytes.
Sha256Hex(bytes) ==
    CASE bytes = "ipkA" -> "2c26b4"
      [] bytes = "ipkB" -> "fcde2b"
      [] OTHER -> "e3b0c4"

\* The ipkHash values callers send.
HashSamples == {"2c26b4", "2C26B4"}

PackageIds == {kHomebrewChannelPackageId, <<"com", "example", "app">>}

LowerCaseHex(h) == IF h = "2C26B4" THEN "2c26b4" ELSE h

\* ChecksumAccepted comparing without regard to case.
ChecksumAcceptedAnyCase(checksum, ipkHash) == LowerCaseHex(checksum) = LowerCaseHex(ipkHash)

\* checksum !== payload.ipkHash, negated: strings compared as they are.
ChecksumAccepted(checksum, ipkHash) == checksum = ipkHash

\* IsSelfUpdate without the comparison: every install is taken for a self-update.
IsSelfUpdateAlways(installedPackageId) == TRUE

\* installedPackageId === kHomebrewChannelPackageId
IsSelfUpdate(installedPackageId) == installedPackageId = kHomebrewChannelPackageId

\* What runningAsRoot() makes of elevateService: the subprocess is started
\* only by a root process.
ElevationRuns(isRoot) == isRoot

\* A thrown value: an Error with a message, or a rejected bus payload.
ErrorValue(message) == [isError |-> TRUE, message |-> message]

RejectedPayload == [isError |-> FALSE, message |-> ""]

NoError == [isError |-> FALSE, message |-> "none"]

\* err.toString()
ErrToString(err) == IF err.isError THEN "Error: " \o err.message ELSE "[object Object]"

\* What goes out on a message.
StatusMsg(text) == [kind |-> "status", text |-> text]

ProgressMsg == [kind |-> "progress", text |-> "Downloading"]

\* makeSuccess(reply)
SuccessEnvelope(text) == [kind |-> "success", text |-> text]

\* makeError(err.toString())
ErrorEnvelope(errorText) == [kind |-> "error", text |-> errorText]

\* message.cancel({})
CancelMsg == [kind |-> "cancel", text |-> ""]

\* tryRespond when the runner returns: respond, then cancel.
TryRespondReturn(log, text) == log \o <<SuccessEnvelope(text), CancelMsg>>

\* tryRespond when the runner throws: respond with the error, then cancel.
TryRespondThrow(log, err) == log \o <<ErrorEnvelope(ErrToString(err)), CancelMsg>>

\* Messages of appInstallService/dev/install.
PlatformMessages ==
    {m \in [returnValue : BOOLEAN, hasErrorCode : BOOLEAN,
            statusValue : {23, InstalledStatusValue}, packageId : PackageIds] :
        \* details.packageId is read from a status 30 message only
        (~m.returnValue \/ m.hasErrorCode \/ m.statusValue # InstalledStatusValue)
            => m.packageId = kHomebrewChannelPackageId}

IdleCall == [pc |-> "idle", ipkHash |-> "", targetPath |-> -1, body |-> "", checksum |-> "",
             progress |-> 0, copied |-> FALSE, sub |-> "none", settled |-> "pending",
             error |-> NoError, installedPackageId |-> <<>>, toastOk |-> FALSE,
             patcherStatus |-> -1, lowered |-> FALSE]

\* A call the service does not receive.
NoCall == [IdleCall EXCEPT !.pc = "off"]

NoTmpFile == "absent"

InstallInit ==
    /\ root \in BOOLEAN
    /\ idleTimeout \in InitialIdleTimeouts
    /\ now = 0
    /\ tmp = [t \in 0..MaxClock |-> NoTmpFile]
    /\ icall = [c \in InstallCalls |-> IF c <= MaxInstalls THEN IdleCall ELSE NoCall]
    /\ sent = [c \in InstallCalls |-> <<>>]
    /\ toasts = [c \in InstallCalls |-> <<>>]
    /\ elevations = [c \in InstallCalls |-> <<>>]

\* The service with every install call arriving.
InstallInitConcurrent ==
    /\ root \in BOOLEAN
    /\ idleTimeout \in InitialIdleTimeouts
    /\ now = 0
    /\ tmp = [t \in 0..MaxClock |-> NoTmpFile]
    /\ icall = [c \in InstallCalls |-> IdleCall]
    /\ sent = [c \in InstallCalls |-> <<>>]
    /\ toasts = [c \in InstallCalls |-> <<>>]
    /\ elevations = [c \in InstallCalls |-> <<>>]

\* The handler of call c ends by throwing err.
InstallThrows(c, err) ==
    /\ icall' = [icall EXCEPT ![c].pc = "done", ![c].error = err]
    /\ sent' = [sent EXCEPT ![c] = TryRespondThrow(@, err)]

\* install handler, lines 184-189: up to the await of fetch. Date.now() is
\* read here only: the clock has advanced by any amount, or not at all,
\* since the last call read it.
InstallStart(c) ==
    /\ icall[c].pc = "idle"
    /\ \E t \in now..MaxClock :
          /\ now' = t
          /\ \E h \in HashSamples :
                icall' = [icall EXCEPT ![c].pc = "fetch", ![c].ipkHash = h,
                                       ![c].targetPath = t]
    /\ sent' = [sent EXCEPT ![c] = Append(@, StatusMsg("Downloading"))]
    /\ UNCHANGED <<root, idleTimeout, tmp, toasts, elevations>>
    /\ UNCHANGED notInstallVars

\* lines 189-201: fetch settles; on an ok response the target file is opened
\* and the pipeline started
FetchDone(c) ==
    /\ icall[c].pc = "fetch"
    /\ \E outcome \in {"rejected", "notOk", "ok"} :
          CASE outcome = "rejected" ->
                  /\ InstallThrows(c, ErrorValue("network"))
                  /\ UNCHANGED tmp
            [] outcome = "notOk" ->
                  /\ InstallThrows(c, ErrorValue("Not Found"))
                  /\ UNCHANGED tmp
            [] outcome = "ok" ->
                  /\ \E b \in Bodies : icall' = [icall EXCEPT ![c].pc = "pipe", ![c].body = b]
                  /\ tmp' = [tmp EXCEPT ![icall[c].targetPath] = "empty"]
                  /\ UNCHANGED sent
    /\ UNCHANGED <<root, idleTimeout, now, toasts, elevations>>
    /\ UNCHANGED notInstallVars

\* ProgressEvent with a reporter that goes on reporting after the copy.
ProgressEventAtAnyStage(c) ==
    /\ icall[c].pc \notin {"idle", "off", "fetch"}
    /\ icall[c].progress < MaxProgress
    /\ icall' = [icall EXCEPT ![c].progress = @ + 1]
    /\ sent' = [sent EXCEPT ![c] = Append(@, ProgressMsg)]
    /\ UNCHANGED <<root, idleTimeout, now, tmp, toasts, elevations>>
    /\ UNCHANGED notInstallVars

\* lines 197-199
ProgressEvent(c) ==
    /\ icall[c].pc = "pipe"
    /\ icall[c].progress < MaxProgress
    /\ icall' = [icall EXCEPT ![c].progress = @ + 1]
    /\ sent' = [sent EXCEPT ![c] = Append(@, ProgressMsg)]
    /\ UNCHANGED <<root, idleTimeout, now, tmp, toasts, elevations>>
    /\ UNCHANGED notInstallVars

\* lines 201-205: the pipeline settles; on success the checksum is started
PipelineDone(c) ==
    /\ icall[c].pc = "pipe"
    /\ \E ok \in BOOLEAN :
          IF ok
          THEN /\ tmp' = [tmp EXCEPT ![icall[c].targetPath] = icall[c].body]
               /\ icall' = [icall EXCEPT ![c].pc = "hash", ![c].copied = TRUE]
               /\ sent' = [sent EXCEPT ![c] = Append(@, StatusMsg("Verifying"))]
          ELSE /\ InstallThrows(c, ErrorValue("stream"))
               /\ UNCHANGED tmp
    /\ UNCHANGED <<root, idleTimeout, now, toasts, elevations>>
    /\ UNCHANGED notInstallVars

\* lines 205-212 and installPackage lines 125-130: hashFile settles; a
\* mismatch throws, a match subscribes to the platform installer
HashDone(c) ==
    /\ icall[c].pc = "hash"
    /\ LET checksum == Sha256Hex(tmp[icall[c].targetPath])
       IN  IF ~ChecksumAccepted(checksum, icall[c].ipkHash)
           THEN /\ icall' = [icall EXCEPT ![c].pc = "done", ![c].checksum = checksum,
                                          ![c].error = ErrorValue("Invalid file checksum")]
                /\ sent' = [sent EXCEPT
                              ![c] = TryRespondThrow(@, ErrorValue("Invalid file checksum"))]
           ELSE /\ icall' = [icall EXCEPT ![c].pc = "install", ![c].checksum = checksum,
                                          ![c].sub = "open"]
                /\ sent' = [sent EXCEPT ![c] = Append(@, StatusMsg("Installing"))]
    /\ UNCHANGED <<root, idleTimeout, now, tmp, toasts, elevations>>
    /\ UNCHANGED notInstallVars

\* Resolve on a promise that could be settled again.
ResolveAgain(call, packageId) ==
    [call EXCEPT !.settled = "resolved", !.installedPackageId = packageId]

\* A promise settles once: resolve and reject after that change nothing.
Resolve(call, packageId) ==
    IF call.settled = "pending"
    THEN [call EXCEPT !.settled = "resolved", !.installedPackageId = packageId]
    ELSE call

Reject(call, err) ==
    IF call.settled = "pending"
    THEN [call EXCEPT !.settled = "rejected", !.error = err]
    ELSE call

\* req.cancel()
ReqCancel(call) == [call EXCEPT !.sub = "cancelled"]

\* installPackage, lines 131-150: what the 'response' handler does with
\* message m
OnResponse(call, m) ==
    IF m.returnValue = FALSE
    THEN ReqCancel(Reject(call, ErrorValue("errorCode: errorText")))
    ELSE IF m.hasErrorCode
    THEN ReqCancel(Reject(call, ErrorValue("errorCode: reason")))
    ELSE IF m.statusValue = InstalledStatusValue
    THEN ReqCancel(Resolve(call, m.packageId))
    ELSE call

\* installPackage, lines 151-157: what the 'cancel' handler does; it does
\* not call req.cancel()
OnCancel(call, hasErrorText) ==
    LET rejected == Reject(call, IF hasErrorText THEN ErrorValue("errorText")
                                 ELSE ErrorValue("cancelled"))
    IN  [rejected EXCEPT !.sub = IF call.sub = "open" THEN "closed" ELSE call.sub]

\* A message of the platform installer can be delivered once the
\* subscription has been made, also one that was under way when the
\* subscription ended. The two handlers touch the promise and the
\* subscription only, which the install handler does not read again once it
\* has resumed, so the late messages are all taken before it resumes.
Deliverable(call) == call.pc = "install" /\ call.sub # "none"

\* installPackage, lines 131-150: the 'response' handler
InstallResponse(c) ==
    /\ Deliverable(icall[c])
    /\ \E m \in PlatformMessages :
          icall' = [icall EXCEPT ![c] = OnResponse(icall[c], m)]
    /\ UNCHANGED <<root, idleTimeout, now, tmp, sent, toasts, elevations>>
    /\ UNCHANGED notInstallVars

\* installPackage, lines 151-157: the 'cancel' handler
InstallCancelEvent(c) ==
    /\ Deliverable(icall[c])
    /\ icall[c].sub # "closed"
    /\ \E hasErrorText \in BOOLEAN :
          icall' = [icall EXCEPT ![c] = OnCancel(icall[c], hasErrorText)]
    /\ UNCHANGED <<root, idleTimeout, now, tmp, sent, toasts, elevations>>
    /\ UNCHANGED notInstallVars

\* InstallSettled with a timeout that gives up on a pending installation.
InstallSettledOrTimedOut(c) ==
    /\ icall[c].pc = "install"
    /\ IF icall[c].settled # "resolved"
       THEN /\ InstallThrows(c, IF icall[c].settled = "rejected" THEN icall[c].error
                                ELSE ErrorValue("timed out"))
            /\ UNCHANGED toasts
       ELSE /\ icall' = [icall EXCEPT ![c].pc = "toast"]
            /\ toasts' = [toasts EXCEPT ![c] = Append(@, [text |-> "Application installed",
                                                pkg |-> icall[c].installedPackageId])]
            /\ UNCHANGED sent
    /\ UNCHANGED <<root, idleTimeout, now, tmp, elevations>>
    /\ UNCHANGED notInstallVars

\* lines 212-214: the await of installPackage resumes
InstallSettled(c) ==
    /\ icall[c].pc = "install"
    /\ icall[c].settled # "pending"
    /\ IF icall[c].settled = "rejected"
       THEN /\ InstallThrows(c, icall[c].error)
            /\ UNCHANGED toasts
       ELSE /\ icall' = [icall EXCEPT ![c].pc = "toast"]
            /\ toasts' = [toasts EXCEPT ![c] = Append(@, [text |-> "Application installed",
                                                pkg |-> icall[c].installedPackageId])]
            /\ UNCHANGED sent
    /\ UNCHANGED <<root, idleTimeout, now, tmp, elevations>>
    /\ UNCHANGED notInstallVars

\* lines 214-223 and elevateService lines 75-82: the first toast settles
ToastDone(c) ==
    /\ icall[c].pc = "toast"
    /\ \E ok \in BOOLEAN :
          IF ~ok
          THEN /\ InstallThrows(c, RejectedPayload)
               /\ UNCHANGED <<idleTimeout, toasts, elevations>>
          ELSE IF ~IsSelfUpdate(icall[c].installedPackageId)
          THEN /\ icall' = [icall EXCEPT ![c].pc = "done", ![c].toastOk = TRUE]
               /\ sent' = [sent EXCEPT ![c] = TryRespondReturn(@, "Finished.")]
               /\ UNCHANGED <<idleTimeout, toasts, elevations>>
          ELSE IF ElevationRuns(root)
          THEN /\ elevations' = [elevations EXCEPT
                                     ![c] = Append(@, <<icall[c].installedPackageId>>)]
               /\ icall' = [icall EXCEPT ![c].pc = "elevate", ![c].toastOk = TRUE]
               /\ UNCHANGED <<idleTimeout, toasts, sent>>
          ELSE /\ idleTimeout' = IdleTimeoutAfterSelfUpdate
               /\ toasts' = [toasts EXCEPT
                                 ![c] = Append(@, [text |-> "Homebrew Channel update finished",
                                                   pkg |-> <<>>])]
               /\ icall' = [icall EXCEPT ![c].pc = "toast2", ![c].toastOk = TRUE,
                                         ![c].lowered = TRUE]
               /\ UNCHANGED <<elevations, sent>>
    /\ UNCHANGED <<root, now, tmp>>
    /\ UNCHANGED notInstallVars

\* lines 78 and 219-220: the elevate-service subprocess ends; asyncExecFile
\* rejects on a non-zero exit status
ElevateDone(c) ==
    /\ icall[c].pc = "elevate"
    /\ \E status \in {0, 1} :
          IF status # 0
          THEN /\ icall' = [icall EXCEPT ![c].pc = "done", ![c].patcherStatus = status,
                                         ![c].error = ErrorValue("Command failed")]
               /\ sent' = [sent EXCEPT ![c] = TryRespondThrow(@, ErrorValue("Command failed"))]
               /\ UNCHANGED <<idleTimeout, toasts>>
          ELSE /\ idleTimeout' = IdleTimeoutAfterSelfUpdate
               /\ toasts' = [toasts EXCEPT
                                 ![c] = Append(@, [text |-> "Homebrew Channel update finished",
                                                   pkg |-> <<>>])]
               /\ icall' = [icall EXCEPT ![c].pc = "toast2", ![c].patcherStatus = status,
                                         ![c].lowered = TRUE]
               /\ UNCHANGED sent
    /\ UNCHANGED <<root, now, tmp, elevations>>
    /\ UNCHANGED notInstallVars

\* lines 220-223: the second toast settles
Toast2Done(c) ==
    /\ icall[c].pc = "toast2"
    /\ \E ok \in BOOLEAN :
          IF ok
          THEN /\ icall' = [icall EXCEPT ![c].pc = "done"]
               /\ sent' = [sent EXCEPT ![c] = TryRespondReturn(@, "Finished.")]
          ELSE InstallThrows(c, RejectedPayload)
    /\ UNCHANGED <<root, idleTimeout, now, tmp, toasts, elevations>>
    /\ UNCHANGED notInstallVars

InstallNext ==
    \/ \E c \in InstallCalls : InstallStart(c)
    \/ \E c \in InstallCalls : FetchDone(c)
    \/ \E c \in InstallCalls : ProgressEvent(c)
    \/ \E c \in InstallCalls : PipelineDone(c)
    \/ \E c \in InstallCalls : HashDone(c)
    \/ \E c \in InstallCalls : InstallResponse(c)
    \/ \E c \in InstallCalls : InstallCancelEvent(c)
    \/ \E c \in InstallCalls : InstallSettled(c)
    \/ \E c \in InstallCalls : ToastDone(c)
    \/ \E c \in InstallCalls : ElevateDone(c)
    \/ \E c \in InstallCalls : Toast2Done(c)

\* ------------------------------------------------------------------------
\* Installer & Control Service: getConfiguration, setConfiguration
\* ------------------------------------------------------------------------

ConfigCalls == 1..MaxConfigCalls

\* The keys of availableFlags.
RecognizedFields == {"telnetDisabled", "failsafe", "sshdEnabled", "blockUpdates"}

\* Keys every object literal inherits from Object.prototype.
InheritedFields == {"constructor"}

\* Field names callers send.
FieldSamples == RecognizedFields \cup InheritedFields \cup {"verbose"}

\* availableFlags[field]: the flag name of a key of the literal, the inherited
\* value (which the path template prints as text) of a key of
\* Object.prototype, undefined for anything else.
AvailableFlags(field) ==
    CASE field = "telnetDisabled" -> [defined |-> TRUE, flag |-> "webosbrew_telnet_disabled"]
      [] field = "failsafe" -> [defined |-> TRUE, flag |-> "webosbrew_failsafe"]
      [] field = "sshdEnabled" -> [defined |-> TRUE, flag |-> "webosbrew_sshd_enabled"]
      [] field = "blockUpdates" -> [defined |-> TRUE, flag |-> "webosbrew_block_updates"]
      [] field \in InheritedFields ->
            [defined |-> TRUE, flag |-> "function Object() { [native code] }"]
      [] OTHER -> [defined |-> FALSE, flag |-> ""]

FlagNames == {AvailableFlags(f).flag : f \in RecognizedFields}

\* What adapter.ts exports.
AdapterExports == {"asyncPipeline", "asyncExecFile", "asyncStat", "asyncUnlink",
                   "asyncWriteFile"}

\* flagRead: await asyncAccess(flagPath(flag)) inside try/catch. service.ts
\* imports asyncAccess from the adapter; a name the adapter does not export
\* is undefined, calling it throws, and the catch returns false.
FlagRead(flag, files) ==
    IF "asyncAccess" \in AdapterExports THEN flag \in files ELSE FALSE

\* The payloads: up to MaxFields fields, each with a boolean.
Payloads ==
    UNION {[S -> BOOLEAN] : S \in {T \in SUBSET FieldSamples : Cardinality(T) <= MaxFields}}

\* .map(...).filter(([, flagName]) => flagName !== undefined)
AcceptedFields(payload) == {f \in DOMAIN payload : AvailableFlags(f).defined}

EmptyResult == [f \in {} |-> FALSE]

With(result, field, value) ==
    [f \in (DOMAIN result) \cup {field} |-> IF f = field THEN value ELSE result[f]]

IdleConfigCall == [pc |-> "idle", method |-> "", payload |-> EmptyResult,
                   writing |-> {}, reading |-> {}, result |-> EmptyResult,
                   outcome |-> "pending", errorText |-> "", cancels |-> 0, prev |-> 0]

ConfigInit ==
    /\ prefs \in SUBSET FlagNames
    /\ ccall = [c \in ConfigCalls |-> IdleConfigCall]
    /\ lastDone = 0

NoneRunning == \A d \in ConfigCalls : ccall[d].pc # "running"

\* setConfiguration handler, lines 253-259: every accepted field's flagSet is
\* started, which issues its write or unlink
SetConfigurationBegin(c) ==
    /\ ccall[c].pc = "idle"
    /\ \E payload \in Payloads :
          ccall' = [ccall EXCEPT ![c].pc = "running", ![c].method = "set",
                                 ![c].payload = payload,
                                 ![c].writing = AcceptedFields(payload),
                                 ![c].prev = lastDone]
    /\ UNCHANGED <<root, prefs, lastDone>>
    /\ UNCHANGED notConfigVars

\* A setConfiguration call that arrives while no other call is in progress.
SetConfigurationStart(c) == NoneRunning /\ SetConfigurationBegin(c)

\* flagSet, lines 106-118: the write or the unlink of one field settles, and
\* flagSet goes on to flagRead; an unlink of a missing file is not an error,
\* any other failure rejects the call
FlagSetFileDone(c, f) ==
    /\ ccall[c].pc \in {"running", "done"}
    /\ f \in ccall[c].writing
    /\ LET flag == AvailableFlags(f).flag
       IN  \E failed \in BOOLEAN :
              \* an unlink of a file that is not there ends in ENOENT, which
              \* flagSet swallows
              /\ failed => (ccall[c].payload[f] \/ flag \in prefs)
              /\ IF failed
                 THEN /\ UNCHANGED prefs
                      /\ IF ccall[c].outcome = "pending"
                         THEN /\ ccall' = [ccall EXCEPT ![c].writing = @ \ {f},
                                                 ![c].pc = "done", ![c].outcome = "error",
                                                 ![c].errorText =
                                                     ErrToString(ErrorValue("EACCES")),
                                                 ![c].cancels = @ + 1]
                              /\ lastDone' = c
                         ELSE /\ ccall' = [ccall EXCEPT ![c].writing = @ \ {f}]
                              /\ UNCHANGED lastDone
                 ELSE /\ prefs' = IF ccall[c].payload[f] THEN prefs \cup {flag}
                                  ELSE prefs \ {flag}
                      /\ ccall' = [ccall EXCEPT ![c].writing = @ \ {f},
                                                ![c].reading = @ \cup {f}]
                      /\ UNCHANGED lastDone
    /\ UNCHANGED root
    /\ UNCHANGED notConfigVars

\* getConfiguration handler, lines 235-239: a flagRead per available flag
GetConfigurationStart(c) ==
    /\ ccall[c].pc = "idle"
    /\ NoneRunning
    /\ ccall' = [ccall EXCEPT ![c].pc = "running", ![c].method = "get",
                              ![c].reading = RecognizedFields, ![c].prev = lastDone]
    /\ UNCHANGED <<root, prefs, lastDone>>
    /\ UNCHANGED notConfigVars

\* flagRead, lines 94-101, settles for one field
FlagReadDone(c, f) ==
    /\ ccall[c].pc \in {"running", "done"}
    /\ f \in ccall[c].reading
    /\ ccall' = [ccall EXCEPT
                   ![c].reading = @ \ {f},
                   ![c].result = With(@, f, FlagRead(AvailableFlags(f).flag, prefs))]
    /\ UNCHANGED <<root, prefs, lastDone>>
    /\ UNCHANGED notConfigVars

\* Promise.all resolves, lines 239-243 and 259; tryRespond responds and cancels
ConfigurationRespond(c) ==
    /\ ccall[c].pc = "running"
    /\ ccall[c].writing = {} /\ ccall[c].reading = {}
    /\ ccall' = [ccall EXCEPT
                   ![c].pc = "done", ![c].outcome = "success", ![c].cancels = @ + 1,
                   ![c].result = IF ccall[c].method = "get" THEN With(@, "root", root)
                                 ELSE @]
    /\ lastDone' = c
    /\ UNCHANGED <<root, prefs>>
    /\ UNCHANGED notConfigVars

ConfigNext ==
    \/ \E c \in ConfigCalls : SetConfigurationStart(c)
    \/ \E c \in ConfigCalls, f \in FieldSamples : FlagSetFileDone(c, f)
    \/ \E c \in ConfigCalls : GetConfigurationStart(c)
    \/ \E c \in ConfigCalls, f \in FieldSamples : FlagReadDone(c, f)
    \/ \E c \in ConfigCalls : ConfigurationRespond(c)

\* setConfiguration calls that arrive at any time: the handlers interleave at
\* their awaits, and nothing serializes the writes of two calls.
ConfigNextConcurrent ==
    \/ \E c \in ConfigCalls : SetConfigurationBegin(c)
    \/ \E c \in ConfigCalls, f \in FieldSamples : FlagSetFileDone(c, f)
    \/ \E c \in ConfigCalls, f \in FieldSamples : FlagReadDone(c, f)
    \/ \E c \in ConfigCalls : ConfigurationRespond(c)

\* ------------------------------------------------------------------------
\* Installer & Control Service: envelopes and buffers
\* ------------------------------------------------------------------------

ControlCalls == 1..MaxControlCalls

\* Object merge: the fields of b over those of a.
Merge(a, b) == [k \in (DOMAIN a) \cup (DOMAIN b) |-> IF k \in DOMAIN b THEN b[k] ELSE a[k]]

\* A handler's return value: a primitive has no fields of its own to merge.
JsObject(fields) == [type |-> "object", bool |-> FALSE, fields |-> fields]

JsBoolean(b) == [type |-> "boolean", bool |-> b, fields |-> EmptyResult]

JsUndefined == [type |-> "undefined", bool |-> FALSE, fields |-> EmptyResult]

OwnFields(value) == IF value.type = "object" THEN value.fields ELSE EmptyResult

\* makeSuccess(fields): {returnValue: true} merged with the given fields.
MakeSuccess(value) == Merge([returnValue |-> TRUE], OwnFields(value))

\* makeError(message, extraFields): {returnValue: false, errorText: message}
\* merged with the extra fields.
MakeError(message, extra) == Merge([returnValue |-> FALSE, errorText |-> message], extra)

\* message.respond(payload)
Respond(payload) == [kind |-> "respond", payload |-> payload]

\* message.cancel({})
Cancel == [kind |-> "cancel", payload |-> EmptyResult]

\* Buffers of captured output, as bytes.
Buffers == {<<>>, <<104, 105>>, <<255, 111, 107, 10>>}

\* The code point the UTF-8 decoder puts for a byte that is not UTF-8.
ReplacementCharacter == 65533

\* buffer.toString(): UTF-8 decoding, here of single-byte characters; a byte
\* that starts no valid sequence decodes to U+FFFD.
BufferToString(buf) ==
    [i \in 1..Len(buf) |-> IF buf[i] < 128 THEN buf[i] ELSE ReplacementCharacter]

Base64Alphabet ==
    <<"A", "B", "C", "D", "E", "F", "G", "H", "I", "J", "K", "L", "M", "N", "O", "P",
      "Q", "R", "S", "T", "U", "V", "W", "X", "Y", "Z", "a", "b", "c", "d", "e", "f",
      "g", "h", "i", "j", "k", "l", "m", "n", "o", "p", "q", "r", "s", "t", "u", "v",
      "w", "x", "y", "z", "0", "1", "2", "3", "4", "5", "6", "7", "8", "9", "+", "/">>

Base64Char(sextet) == Base64Alphabet[sextet + 1]

\* One group of up to three bytes as four characters.
Base64Group(g) ==
    LET n == Len(g)
        b1 == g[1]
        b2 == IF n >= 2 THEN g[2] ELSE 0
        b3 == IF n >= 3 THEN g[3] ELSE 0
    IN  << Base64Char(b1 \div 4),
           Base64Char((b1 % 4) * 16 + (b2 \div 16)),
           IF n >= 2 THEN Base64Char((b2 % 16) * 4 + (b3 \div 64)) ELSE "=",
           IF n >= 3 THEN Base64Char(b3 % 64) ELSE "=" >>

RECURSIVE BufferToBase64(_)
\* buffer.toString('base64')
BufferToBase64(buf) ==
    IF buf = <<>> THEN <<>>
    ELSE IF Len(buf) <= 3 THEN Base64Group(buf)
    ELSE Base64Group(SubSeq(buf, 1, 3)) \o BufferToBase64(SubSeq(buf, 4, Len(buf)))

\* ------------------------------------------------------------------------
\* Installer & Control Service: exec
\* ------------------------------------------------------------------------

\* The commands callers send: non-empty shell command lines.
Commands == {"true", "exit 3"}

\* The error argument of child_process.exec's callback: null, or an Error.
Null == [isNull |-> TRUE, message |-> ""]

ExecError(command) == [isNull |-> FALSE, message |-> "Command failed: " \o command]

\* lines 310-316
ExecResponse(error, stdout, stderr) ==
    [error |-> error,
     stdoutString |-> BufferToString(stdout),
     stdoutBytes |-> BufferToBase64(stdout),
     stderrString |-> BufferToString(stderr),
     stderrBytes |-> BufferToBase64(stderr)]

\* ExecReply answering with a success envelope whatever the error is.
ExecReplyAlwaysSuccess(error, stdout, stderr) ==
    MakeSuccess(JsObject(ExecResponse(error, stdout, stderr)))

\* lines 317-321
ExecReply(error, stdout, stderr) ==
    IF ~error.isNull
    THEN MakeError(error.message, ExecResponse(error, stdout, stderr))
    ELSE MakeSuccess(JsObject(ExecResponse(error, stdout, stderr)))

IdleControlCall == [pc |-> "idle", method |-> "", command |-> "", failed |-> FALSE,
                    stdout |-> <<>>, stderr |-> <<>>, chunks |-> 0, exited |-> FALSE,
                    code |-> -1, id |-> "", listed |-> FALSE, apps |-> <<>>,
                    thrown |-> NoError]

ControlInit ==
    /\ root \in BOOLEAN
    /\ ctl = [c \in ControlCalls |-> IdleControlCall]
    /\ csent = [c \in ControlCalls |-> <<>>]
    /\ busCalls = [c \in ControlCalls |-> <<>>]
    /\ alive = TRUE

\* exec handler, lines 307-309: the command is started through a shell
ExecStart(c) ==
    /\ alive
    /\ ctl[c].pc = "idle"
    /\ \E command \in Commands :
          ctl' = [ctl EXCEPT ![c].pc = "exec", ![c].method = "exec", ![c].command = command]
    /\ UNCHANGED <<root, csent, busCalls, alive>>
    /\ UNCHANGED notControlVars

\* the callback of child_process.exec, lines 309-322: called once, when the
\* command has ended (or could not be run), with what it wrote
ExecCallback(c) ==
    /\ alive
    /\ ctl[c].pc = "exec"
    /\ \E failed \in BOOLEAN, stdout \in Buffers, stderr \in Buffers :
          LET error == IF failed THEN ExecError(ctl[c].command) ELSE Null
          IN  /\ ctl' = [ctl EXCEPT ![c].pc = "done", ![c].failed = failed,
                                    ![c].stdout = stdout, ![c].stderr = stderr]
              /\ csent' = [csent EXCEPT ![c] = Append(@, Respond(ExecReply(error, stdout, stderr)))]
    /\ UNCHANGED <<root, busCalls, alive>>
    /\ UNCHANGED notControlVars

\* ------------------------------------------------------------------------
\* Installer & Control Service: spawn
\* ------------------------------------------------------------------------

\* Exit statuses of a spawned shell; -1 stands for null (ended by a signal).
ExitCodes == {0, 3, -1}

\* respond(event, args): message.respond({ event, ...args })
SpawnEvent(event, args) == Respond(Merge([event |-> event], args))

\* lines 332-337
StdoutData(data) ==
    SpawnEvent("stdoutData", [stdoutString |-> BufferToString(data),
                              stdoutBytes |-> BufferToBase64(data)])

\* lines 338-343
StderrData(data) ==
    SpawnEvent("stderrData", [stderrString |-> BufferToString(data),
                              stderrBytes |-> BufferToBase64(data)])

\* spawn handler, lines 328-346: /bin/sh is started and the listeners are
\* attached; a shell that cannot be started is reported later, by an
\* 'error' event
SpawnStart(c) ==
    /\ alive
    /\ ctl[c].pc = "idle"
    /\ \E command \in Commands, started \in BOOLEAN :
          ctl' = [ctl EXCEPT ![c].pc = IF started THEN "spawn" ELSE "spawnError",
                             ![c].method = "spawn", ![c].command = command]
    /\ UNCHANGED <<root, csent, busCalls, alive>>
    /\ UNCHANGED notControlVars

\* proc.stdout 'data', lines 332-337: a pipe stays readable until it is
\* closed, which the end of the shell does not imply
SpawnStdoutData(c) ==
    /\ alive
    /\ ctl[c].pc = "spawn"
    /\ ctl[c].chunks < MaxChunks
    /\ \E data \in Buffers \ {<<>>} :
          csent' = [csent EXCEPT ![c] = Append(@, StdoutData(data))]
    /\ ctl' = [ctl EXCEPT ![c].chunks = @ + 1]
    /\ UNCHANGED <<root, busCalls, alive>>
    /\ UNCHANGED notControlVars

\* proc.stderr 'data', lines 338-343
SpawnStderrData(c) ==
    /\ alive
    /\ ctl[c].pc = "spawn"
    /\ ctl[c].chunks < MaxChunks
    /\ \E data \in Buffers \ {<<>>} :
          csent' = [csent EXCEPT ![c] = Append(@, StderrData(data))]
    /\ ctl' = [ctl EXCEPT ![c].chunks = @ + 1]
    /\ UNCHANGED <<root, busCalls, alive>>
    /\ UNCHANGED notControlVars

\* proc 'exit', line 345: the shell has ended
SpawnExit(c) ==
    /\ alive
    /\ ctl[c].pc = "spawn"
    /\ ~ctl[c].exited
    /\ \E code \in ExitCodes :
          /\ ctl' = [ctl EXCEPT ![c].exited = TRUE, ![c].code = code]
          /\ csent' = [csent EXCEPT ![c] = Append(@, SpawnEvent("exit", [exitCode |-> code]))]
    /\ UNCHANGED <<root, busCalls, alive>>
    /\ UNCHANGED notControlVars

\* proc 'close', line 344: the shell has ended and its pipes are closed
SpawnClose(c) ==
    /\ alive
    /\ ctl[c].pc = "spawn"
    /\ ctl[c].exited
    /\ ctl' = [ctl EXCEPT ![c].pc = "done"]
    /\ csent' = [csent EXCEPT
                    ![c] = Append(@, SpawnEvent("close", [closeCode |-> ctl[c].code]))]
    /\ UNCHANGED <<root, busCalls, alive>>
    /\ UNCHANGED notControlVars

\* proc 'error': the handler attaches no listener for it (lines 331-345), so
\* the event is thrown as an uncaught exception
SpawnError(c) ==
    /\ alive
    /\ ctl[c].pc = "spawnError"
    /\ ctl' = [ctl EXCEPT ![c].pc = "done", ![c].failed = TRUE]
    /\ alive' = FALSE
    /\ UNCHANGED <<root, csent, busCalls>>
    /\ UNCHANGED notControlVars

\* ------------------------------------------------------------------------
\* Installer & Control Service: reboot, checkRoot, getAppInfo, getDrmStatus
\* ------------------------------------------------------------------------

\* tryRespond when the runner throws err: respond with the error, then cancel.
TryRespondError(log, err) ==
    log \o <<Respond(MakeError(ErrToString(err), EmptyResult)), Cancel>>

\* TryRespondReply without the finally clause.
TryRespondReplyNoCancel(log, value) == log \o <<Respond(MakeSuccess(value))>>

\* tryRespond when the runner returns value: respond, then cancel.
TryRespondReply(log, value) == log \o <<Respond(MakeSuccess(value)), Cancel>>

\* getInstallerService(): the service itself for a root process, the remote
\* proxy otherwise.
GetInstallerService(isRoot) == IF isRoot THEN "service" ELSE "serviceRemote"

\* The id field of getAppInfo requests; "" stands for a request without one.
RequestIds == {"", "org.webosbrew.hbchannel", "com.example.app"}

\* !appId
Falsy(text) == text = ""

App(id, title) == [id |-> id, title |-> title]

\* Listings the application manager returns.
AppLists ==
    {<<>>,
     <<App("org.webosbrew.hbchannel", "Homebrew Channel")>>,
     <<App("com.example.other", "Other"), App("com.example.app", "Example"),
       App("com.example.app", "Example again")>>}

\* apps.find(...) taking the last entry with the id instead of the first.
FindAppLast(apps, appId) ==
    LET hits == {i \in 1..Len(apps) : apps[i].id = appId}
    IN  IF hits = {} THEN [found |-> FALSE, app |-> App("", "")]
        ELSE [found |-> TRUE, app |-> apps[CHOOSE i \in hits : \A j \in hits : j <= i]]

\* appList.apps.find((app) => app.id === appId): the first entry with the id
FindApp(apps, appId) ==
    LET hits == {i \in 1..Len(apps) : apps[i].id = appId}
    IN  IF hits = {} THEN [found |-> FALSE, app |-> App("", "")]
        ELSE [found |-> TRUE, app |-> apps[CHOOSE i \in hits : \A j \in hits : i <= j]]

\* The message of line 291; the source quotes the word id with backticks.
MissingIdMessage == "missing 'id' string field"

\* The message of line 298 for an id.
InvalidIdMessage(appId) == "Invalid appId, or unsupported application type: " \o appId

ListAppsUri == "luna://com.webos.applicationManager/dev/listApps"

\* runningAsRoot()
RunningAsRoot(isRoot) == JsBoolean(isRoot)

\* checkRoot, lines 276-279
CheckRoot(c) ==
    /\ alive
    /\ ctl[c].pc = "idle"
    /\ ctl' = [ctl EXCEPT ![c].pc = "done", ![c].method = "checkRoot"]
    /\ csent' = [csent EXCEPT ![c] = TryRespondReply(@, RunningAsRoot(root))]
    /\ UNCHANGED <<root, busCalls, alive>>
    /\ UNCHANGED notControlVars

\* getDrmStatus, lines 352-361
GetDrmStatus(c) ==
    /\ alive
    /\ ctl[c].pc = "idle"
    /\ \E appId \in RequestIds \ {""} :
          /\ ctl' = [ctl EXCEPT ![c].pc = "done", ![c].method = "getDrmStatus",
                                ![c].id = appId]
          /\ csent' = [csent EXCEPT
                          ![c] = TryRespondReply(@,
                                    JsObject([appId |-> appId, drmType |-> "NCG DRM",
                                              installBasePath |-> "/media/cryptofs",
                                              returnValue |-> TRUE,
                                              isTimeLimited |-> FALSE]))]
    /\ UNCHANGED <<root, busCalls, alive>>
    /\ UNCHANGED notControlVars

\* reboot, lines 266-269: the reboot command is started
RebootStart(c) ==
    /\ alive
    /\ ctl[c].pc = "idle"
    /\ ctl' = [ctl EXCEPT ![c].pc = "reboot", ![c].method = "reboot"]
    /\ UNCHANGED <<root, csent, busCalls, alive>>
    /\ UNCHANGED notControlVars

\* reboot, lines 269-270: asyncExecFile settles
RebootDone(c) ==
    /\ alive
    /\ ctl[c].pc = "reboot"
    /\ \E failed \in BOOLEAN :
          /\ ctl' = [ctl EXCEPT ![c].pc = "done", ![c].failed = failed,
                                ![c].thrown = IF failed
                                              THEN ErrorValue("Command failed: reboot")
                                              ELSE NoError]
          /\ csent' = [csent EXCEPT
                          ![c] = IF failed
                                 THEN TryRespondError(@, ErrorValue("Command failed: reboot"))
                                 ELSE TryRespondReply(@, JsUndefined)]
    /\ UNCHANGED <<root, busCalls, alive>>
    /\ UNCHANGED notControlVars

\* getAppInfo, lines 288-296: a request without id throws, any other asks
\* the application manager for its listing
GetAppInfoStart(c) ==
    /\ alive
    /\ ctl[c].pc = "idle"
    /\ \E appId \in RequestIds :
          IF Falsy(appId)
          THEN /\ ctl' = [ctl EXCEPT ![c].pc = "done", ![c].method = "getAppInfo",
                                     ![c].id = appId, ![c].failed = TRUE,
                                     ![c].thrown = ErrorValue(MissingIdMessage)]
               /\ csent' = [csent EXCEPT
                               ![c] = TryRespondError(@, ErrorValue(MissingIdMessage))]
               /\ UNCHANGED busCalls
          ELSE /\ ctl' = [ctl EXCEPT ![c].pc = "listApps", ![c].method = "getAppInfo",
                                     ![c].id = appId]
               /\ busCalls' = [busCalls EXCEPT
                                  ![c] = Append(@, [handle |-> GetInstallerService(root),
                                                    uri |-> ListAppsUri])]
               /\ UNCHANGED csent
    /\ UNCHANGED <<root, alive>>
    /\ UNCHANGED notControlVars

\* getAppInfo, lines 292-299 and asyncCall lines 45-51: the listing arrives
GetAppInfoListed(c) ==
    /\ alive
    /\ ctl[c].pc = "listApps"
    /\ \E returnValue \in BOOLEAN, apps \in AppLists :
          LET appId == ctl[c].id
              hit == FindApp(apps, appId)
          IN  IF ~returnValue
              THEN /\ ctl' = [ctl EXCEPT ![c].pc = "done", ![c].failed = TRUE,
                                         ![c].thrown = RejectedPayload]
                   /\ csent' = [csent EXCEPT ![c] = TryRespondError(@, RejectedPayload)]
              ELSE IF ~hit.found
              THEN /\ ctl' = [ctl EXCEPT ![c].pc = "done", ![c].failed = TRUE,
                                         ![c].listed = TRUE, ![c].apps = apps,
                                         ![c].thrown = ErrorValue(InvalidIdMessage(appId))]
                   /\ csent' = [csent EXCEPT
                                   ![c] = TryRespondError(@,
                                            ErrorValue(InvalidIdMessage(appId)))]
              ELSE /\ ctl' = [ctl EXCEPT ![c].pc = "done", ![c].listed = TRUE,
                                         ![c].apps = apps]
                   /\ csent' = [csent EXCEPT
                                   ![c] = TryRespondReply(@,
                                            JsObject([appId |-> appId, appInfo |-> hit.app]))]
    /\ UNCHANGED <<root, busCalls, alive>>
    /\ UNCHANGED notControlVars

ControlNext ==
    \/ \E c \in ControlCalls : ExecStart(c)
    \/ \E c \in ControlCalls : ExecCallback(c)
    \/ \E c \in ControlCalls : SpawnStart(c)
    \/ \E c \in ControlCalls : SpawnStdoutData(c)
    \/ \E c \in ControlCalls : SpawnStderrData(c)
    \/ \E c \in ControlCalls : SpawnExit(c)
    \/ \E c \in ControlCalls : SpawnClose(c)
    \/ \E c \in ControlCalls : SpawnError(c)
    \/ \E c \in ControlCalls : CheckRoot(c)
    \/ \E c \in ControlCalls : GetDrmStatus(c)
    \/ \E c \in ControlCalls : RebootStart(c)
    \/ \E c \in ControlCalls : RebootDone(c)
    \/ \E c \in ControlCalls : GetAppInfoStart(c)
    \/ \E c \in ControlCalls : GetAppInfoListed(c)

\* ------------------------------------------------------------------------
\* Specifications
\* ------------------------------------------------------------------------

\* The patcher has not been started.
PatcherQuiet ==
    /\ argv = <<>> /\ serviceName = <<>> /\ appName = <<>>
    /\ fs = [svc |-> NoFile, client |-> NoPerm, api |-> NoPerm, manifest |-> NoManifest,
             role |-> NoRole, legacy |-> NoFile, legacyRole |-> NoLegacyRole]
    /\ ppc = "exit" /\ configChanged = FALSE /\ written = {} /\ rescans = 0
    /\ rescanErr = "none" /\ exitCode = 0 /\ run = MaxRuns /\ startFs = fs /\ exits = <<>>

\* The service receives no install call.
InstallQuiet ==
    /\ root = TRUE
    /\ idleTimeout \in InitialIdleTimeouts
    /\ now = 0
    /\ tmp = [t \in 0..MaxClock |-> NoTmpFile]
    /\ icall = [c \in InstallCalls |-> NoCall]
    /\ sent = [c \in InstallCalls |-> <<>>]
    /\ toasts = [c \in InstallCalls |-> <<>>]
    /\ elevations = [c \in InstallCalls |-> <<>>]

\* The service receives no configuration call.
ConfigQuiet ==
    /\ prefs = {}
    /\ ccall = [c \in ConfigCalls |-> [IdleConfigCall EXCEPT !.pc = "off"]]
    /\ lastDone = 0

\* The service receives no exec, spawn, reboot, checkRoot, getAppInfo or
\* getDrmStatus call.
ControlQuiet ==
    /\ ctl = [c \in ControlCalls |-> [IdleControlCall EXCEPT !.pc = "off"]]
    /\ csent = [c \in ControlCalls |-> <<>>]
    /\ busCalls = [c \in ControlCalls |-> <<>>]
    /\ alive = TRUE

InitPatcher == PatcherInit /\ InstallQuiet /\ ConfigQuiet /\ ControlQuiet

SpecPatcher == InitPatcher /\ [][PatcherNext]_vars

InitInstall == InstallInit /\ PatcherQuiet /\ ConfigQuiet /\ ControlQuiet

SpecInstall == InitInstall /\ [][InstallNext]_vars

\* Every install call is made: the calls interleave at their awaits.
InitInstallConcurrent == InstallInitConcurrent /\ PatcherQuiet /\ ConfigQuiet /\ ControlQuiet

SpecInstallConcurrent == InitInstallConcurrent /\ [][InstallNext]_vars

InitConfig == ConfigInit /\ InstallQuiet /\ PatcherQuiet /\ ControlQuiet

SpecConfig == InitConfig /\ [][ConfigNext]_vars

InitConfigConcurrent == ConfigInit /\ InstallQuiet /\ PatcherQuiet /\ ControlQuiet

SpecConfigConcurrent == InitConfigConcurrent /\ [][ConfigNextConcurrent]_vars

\* ControlInit chooses root; the rest of the install state is at rest.
InitControl ==
    /\ ControlInit
    /\ idleTimeout \in InitialIdleTimeouts
    /\ now = 0
    /\ tmp = [t \in 0..MaxClock |-> NoTmpFile]
    /\ icall = [c \in InstallCalls |-> NoCall]
    /\ sent = [c \in InstallCalls |-> <<>>]
    /\ toasts = [c \in InstallCalls |-> <<>>]
    /\ elevations = [c \in InstallCalls |-> <<>>]
    /\ PatcherQuiet
    /\ ConfigQuiet

SpecControl == InitControl /\ [][ControlNext]_vars

\* ========================================================================
\* Properties
\* ========================================================================

Count(items, x) == Cardinality({i \in 1..Len(items) : items[i] = x})

\* C1: when the patcher is run a second time on the artifacts a first,
\* successful run left, the second run writes no file and starts no rescan.
C1_SecondRunWritesNothing ==
    (run >= 2 /\ exits[run - 1] = 0) => (written = {} /\ rescans = 0)

\* C2: after a run that handled an existing role file, allowedNames holds
\* exactly one "*" and permissions exactly one fully-open record.
C2_RoleWildcardsExactlyOnce ==
    (ppc = "exit" /\ exitCode = 0 /\ fs.svc.exists /\ fs.role.exists)
        => (Count(fs.role.names.items, "star") = 1 /\ Count(fs.role.perms.items, "wild") = 1)

\* C7: patchServiceFile on a descriptor that contains the jailer marker,
\* called without names (the legacy calls), writes nothing, does not report
\* a change and lets main continue.
C7_JailerWithoutNamesIsSkipped ==
    [][(ppc \in {"legacyPubServiceFile", "legacyPrvServiceFile"}
            /\ fs.legacy.exists /\ IncludesJailer(fs.legacy.text))
        => (fs' = fs /\ written' = written /\ configChanged' = configChanged
            /\ ppc' # "exit")]_vars

\* C8: a client or API permission file that exists is never written: no
\* step of a run changes it, and its own step neither records a write nor
\* sets configChanged.
C8_PermFilesWriteOnce ==
    [][/\ fs.client.exists => fs'.client = fs.client
       /\ fs.api.exists => fs'.api = fs.api
       /\ (ppc = "clientPermFile" /\ fs.client.exists)
            => (written' = written /\ configChanged' = configChanged)
       /\ (ppc = "apiPermFile" /\ fs.api.exists)
            => (written' = written /\ configChanged' = configChanged)]_vars

\* C8 witness: a run has passed both permission steps with both files
\* already there, one of them with foreign content, and nothing is changed.
C8_Witness ==
    /\ ppc = "manifestFile"
    /\ startFs.client.exists /\ startFs.client.body = "custom"
    /\ startFs.api.exists
    /\ fs.client = startFs.client /\ fs.api = startFs.api
    /\ ~configChanged

\* C9: when a run has ended, the rescan was started exactly if the run wrote
\* an artifact, and the exit status is 1 exactly if the rescan ran and failed.
C9_RescanIffWrittenAndExitStatus ==
    ppc = "exit" =>
        /\ (rescans > 0) <=> (written # {})
        /\ rescans <= 1
        /\ exitCode = (IF rescans > 0 /\ rescanErr = "err" THEN 1 ELSE 0)

AlreadyListedOrMissing(list, x) == ~list.present \/ ~NotListed(list, x)

ManifestNeedsNothing ==
    /\ ppc = "manifestFile"
    /\ fs.manifest.exists /\ fs.manifest.parsable
    /\ AlreadyListedOrMissing(fs.manifest.client, "clientPermFile")
    /\ AlreadyListedOrMissing(fs.manifest.api, "apiPermFile")

\* C10 as stated: a manifest whose lists already hold the two paths (or has
\* no such lists) is not appended to, not written, and does not set
\* configChanged.
C10_ListedManifestNotWritten ==
    [][ManifestNeedsNothing
        => (/\ fs'.manifest.client = fs.manifest.client
            /\ fs'.manifest.api = fs.manifest.api
            /\ written' = written
            /\ configChanged' = configChanged)]_vars

\* C10 amended: such a manifest is never appended to; it is left unwritten,
\* without setting configChanged, exactly if its text already is the text
\* JSON.stringify prints for it; otherwise it is rewritten in that form, which
\* counts as a change.
C10_ListedManifestWrittenOnlyToNormalize ==
    [][ManifestNeedsNothing
        => (/\ fs'.manifest.client = fs.manifest.client
            /\ fs'.manifest.api = fs.manifest.api
            /\ fs.manifest.canon
                 => (fs' = fs /\ written' = written /\ configChanged' = configChanged)
            /\ ~fs.manifest.canon
                 => ("manifestFile" \in written' /\ configChanged' /\ fs'.manifest.canon))]_vars

\* C10 witness: the manifest step has passed a canonical manifest that lists
\* both paths, after an earlier step of the run wrote something else.
C10_Witness ==
    /\ ppc = "roleFile"
    /\ startFs.manifest.exists /\ startFs.manifest.parsable /\ startFs.manifest.canon
    /\ ~NotListed(startFs.manifest.client, "clientPermFile")
    /\ ~NotListed(startFs.manifest.api, "apiPermFile")
    /\ fs.manifest = startFs.manifest
    /\ "manifestFile" \notin written
    /\ written # {}

\* The final envelope of a finished call: the one before the cancellation.
FinalEnvelope(c) == sent[c][Len(sent[c]) - 1]

\* The file call c downloaded hashed to something other than its ipkHash.
ChecksumMismatch(c) ==
    /\ icall[c].pc = "done"
    /\ icall[c].checksum # ""
    /\ icall[c].checksum # icall[c].ipkHash

NothingPrivilegedDone(c) ==
    /\ icall[c].sub = "none"
    /\ toasts[c] = <<>>
    /\ elevations[c] = <<>>
    /\ ~icall[c].lowered

\* C3 as stated: an install whose downloaded file's SHA-256 differs from
\* ipkHash ends with an error envelope whose text is "Invalid file checksum",
\* without subscribing to the platform installer, posting a toast or elevating.
C3_MismatchEndsWithInvalidFileChecksum ==
    \A c \in InstallCalls :
        ChecksumMismatch(c)
            => (/\ FinalEnvelope(c) = ErrorEnvelope("Invalid file checksum")
                /\ NothingPrivilegedDone(c))

\* C3 amended: such an install ends with an error envelope whose text is the
\* stringified Error, "Error: Invalid file checksum", followed by the
\* cancellation, without subscribing to the platform installer, posting a
\* toast or elevating.
C3_MismatchEndsWithStringifiedError ==
    \A c \in InstallCalls :
        ChecksumMismatch(c)
            => (/\ FinalEnvelope(c) = [kind |-> "error", text |-> "Error: Invalid file checksum"]
                /\ sent[c][Len(sent[c])] = CancelMsg
                /\ \A i \in 1..Len(sent[c]) : sent[c][i].kind # "success"
                /\ NothingPrivilegedDone(c))

\* C3 witness: a call ended on a hash that differs from the digest only in
\* the case of its letters.
C3_Witness ==
    \E c \in InstallCalls :
        /\ ChecksumMismatch(c)
        /\ icall[c].ipkHash = "2C26B4" /\ icall[c].checksum = "2c26b4"
        /\ FinalEnvelope(c).kind = "error"

OwnId == <<"org", "webosbrew", "hbchannel">>

Installed(c) == icall[c].pc = "done" /\ icall[c].settled = "resolved"

\* C4 as stated, for the installs that end with Finished.: one of the
\* system's own application id has started the patcher with that id and left
\* the idle timeout at 1; one of another id has done neither.
C4_SelfInstallElevatesAndLowers ==
    \A c \in InstallCalls :
        (Installed(c) /\ FinalEnvelope(c).kind = "success")
            => IF icall[c].installedPackageId = OwnId
               THEN elevations[c] = << <<OwnId>> >> /\ idleTimeout = 1
               ELSE elevations[c] = <<>> /\ ~icall[c].lowered

\* C4 amended: an install of the system's own id whose first toast went
\* through starts the patcher, with that id as its only argument, exactly if
\* the service runs as root, and lowers the idle timeout to 1 exactly if the
\* patcher was skipped (not root) or exited with status 0; an install of any
\* other id, or one that failed earlier, does neither; the idle timeout
\* differs from its initial value only once some install lowered it.
C4_SelfInstallElevatesIfRootAndLowersUnlessPatcherFails ==
    /\ \A c \in InstallCalls :
          icall[c].pc = "done" =>
            LET own == /\ icall[c].settled = "resolved"
                       /\ icall[c].installedPackageId = OwnId
                       /\ icall[c].toastOk
            IN  /\ elevations[c] = IF own /\ root THEN << <<OwnId>> >> ELSE <<>>
                /\ icall[c].lowered <=> (own /\ (~root \/ icall[c].patcherStatus = 0))
                /\ icall[c].lowered => idleTimeout = 1
    /\ (\A c \in InstallCalls : ~icall[c].lowered) => idleTimeout \in InitialIdleTimeouts

\* C4 witness: a root service finished an install of its own id: the patcher
\* ran with that id and the idle timeout is 1.
C4_Witness ==
    \E c \in InstallCalls :
        /\ Installed(c) /\ FinalEnvelope(c).kind = "success"
        /\ icall[c].installedPackageId = OwnId
        /\ root
        /\ elevations[c] = << <<OwnId>> >>
        /\ icall[c].patcherStatus = 0
        /\ idleTimeout = 1

\* C5: a getConfiguration that directly follows a successful
\* setConfiguration reports, for every recognized field of that request, the
\* value the request gave it.
C5_SetThenGetReportsValue ==
    \A g \in ConfigCalls :
        (ccall[g].method = "get" /\ ccall[g].outcome = "success" /\ ccall[g].prev # 0)
            => LET s == ccall[g].prev
               IN  (ccall[s].method = "set" /\ ccall[s].outcome = "success")
                      => \A f \in (DOMAIN ccall[s].payload) \cap RecognizedFields :
                            ccall[g].result[f] = ccall[s].payload[f]

\* C6: a field of a setConfiguration request that is not one of the four
\* recognized ones creates or removes no file, is absent from the result and
\* does not make the call fail; a marker file changes only through a request
\* that names its flag.
C6_UnrecognizedFieldsIgnored ==
    [][/\ prefs' \subseteq FlagNames
       /\ \A c \in ConfigCalls :
             ccall'[c].method = "set"
                => (/\ (DOMAIN ccall'[c].result) \subseteq RecognizedFields
                    /\ (DOMAIN ccall'[c].payload) \cap RecognizedFields = {}
                          => ccall'[c].outcome # "error")
       /\ \A n \in FlagNames :
             ((n \in prefs) # (n \in prefs'))
                => \E c \in ConfigCalls, f \in RecognizedFields :
                      f \in ccall[c].writing /\ AvailableFlags(f).flag = n]_vars

\* The payload of the i-th thing sent on control call c.
Sent(c, i) == csent[c][i].payload

\* C11: an exec call sends nothing while its command runs and exactly one
\* response once it has ended; the response carries the string and base64
\* forms of stdout and stderr, its error field is non-null exactly if the
\* command failed, and it is an error envelope exactly in that case.
C11_ExecRespondsOnceWithOutputAndError ==
    \A c \in ControlCalls :
        ctl[c].method = "exec" =>
            /\ ctl[c].pc = "exec" => csent[c] = <<>>
            /\ ctl[c].pc = "done" =>
                  /\ Len(csent[c]) = 1
                  /\ csent[c][1].kind = "respond"
                  /\ Sent(c, 1).stdoutString = BufferToString(ctl[c].stdout)
                  /\ Sent(c, 1).stdoutBytes = BufferToBase64(ctl[c].stdout)
                  /\ Sent(c, 1).stderrString = BufferToString(ctl[c].stderr)
                  /\ Sent(c, 1).stderrBytes = BufferToBase64(ctl[c].stderr)
                  /\ ~Sent(c, 1).error.isNull <=> ctl[c].failed
                  /\ Sent(c, 1).returnValue = ~ctl[c].failed
                  /\ ("errorText" \in DOMAIN Sent(c, 1)) <=> ctl[c].failed

\* C11 witness: a failed command that printed "hi" and, on stderr, a byte
\* that is not UTF-8 was answered with an error envelope carrying both forms.
C11_Witness ==
    \E c \in ControlCalls :
        /\ ctl[c].method = "exec" /\ ctl[c].pc = "done" /\ ctl[c].failed
        /\ Len(csent[c]) = 1
        /\ Sent(c, 1).returnValue = FALSE
        /\ Sent(c, 1).stdoutString = <<104, 105>>
        /\ Sent(c, 1).stdoutBytes = <<"a", "G", "k", "=">>
        /\ Sent(c, 1).stderrString = <<65533, 111, 107, 10>>
        /\ Sent(c, 1).stderrBytes = <<"/", "2", "9", "r", "C", "g", "=", "=">>

\* The positions in the log of control call c that hold the given events.
EventsAt(c, events) ==
    {i \in 1..Len(csent[c]) : csent[c][i].kind = "respond"
                               /\ "event" \in DOMAIN Sent(c, i)
                               /\ Sent(c, i).event \in events}

\* C12: a spawn call sends only events, never an envelope with returnValue
\* false; no stdoutData or stderrData event follows an exit or a close
\* event; and a call that has ended, whether its command succeeded, failed
\* or its shell could not be started, has sent exactly one exit and exactly
\* one close event.
C12_SpawnDataThenOneCloseAndOneExit ==
    \A c \in ControlCalls :
        ctl[c].method = "spawn" =>
            /\ \A i \in 1..Len(csent[c]) :
                  /\ csent[c][i].kind = "respond"
                  /\ "returnValue" \notin DOMAIN Sent(c, i)
            /\ \A i \in EventsAt(c, {"exit", "close"}) :
                  \A j \in EventsAt(c, {"stdoutData", "stderrData"}) : j < i
            /\ ctl[c].pc = "done" =>
                  /\ Cardinality(EventsAt(c, {"exit"})) = 1
                  /\ Cardinality(EventsAt(c, {"close"})) = 1

\* The operations registered through tryRespond that this part models.
TryRespondMethods == {"reboot", "checkRoot", "getAppInfo", "getDrmStatus"}

\* C13: a call of an operation wrapped by tryRespond sends nothing while its
\* handler runs; when the handler has ended it has sent exactly one
\* envelope, a success envelope (returnValue true, with the fields of the
\* return value) if it returned and an error envelope whose errorText is the
\* stringified failure if it threw, and after it exactly one cancellation,
\* which is the last thing sent.
C13_TryRespondOneEnvelopeThenCancel ==
    \A c \in ControlCalls :
        ctl[c].method \in TryRespondMethods =>
            /\ ctl[c].pc # "done" => csent[c] = <<>>
            /\ ctl[c].pc = "done" =>
                  /\ Len(csent[c]) = 2
                  /\ csent[c][1].kind = "respond"
                  /\ csent[c][2].kind = "cancel"
                  /\ Sent(c, 1).returnValue = ~ctl[c].failed
                  /\ ("errorText" \in DOMAIN Sent(c, 1)) <=> ctl[c].failed
                  /\ ctl[c].failed =>
                        Sent(c, 1).errorText =
                            (IF ctl[c].thrown.isError
                             THEN "Error: " \o ctl[c].thrown.message
                             ELSE "[object Object]")
                  /\ (ctl[c].method = "getDrmStatus")
                        => (Sent(c, 1).appId = ctl[c].id /\ Sent(c, 1).drmType = "NCG DRM")
                  /\ (ctl[c].method = "getAppInfo" /\ ~ctl[c].failed)
                        => Sent(c, 1).appId = ctl[c].id

\* C13 witness: one call has ended by returning and one kind of call by
\* throwing, each with its envelope followed by the cancellation.
C13_Witness ==
    \E c \in ControlCalls :
        /\ ctl[c].method = "getAppInfo" /\ ctl[c].pc = "done"
        /\ ctl[c].failed /\ ctl[c].thrown.isError /\ ctl[c].listed
        /\ Len(csent[c]) = 2
        /\ Sent(c, 1).returnValue = FALSE
        /\ csent[c][2] = Cancel

\* The listing of call c holds an entry with the requested id.
IdListed(c) == \E i \in 1..Len(ctl[c].apps) : ctl[c].apps[i].id = ctl[c].id

\* C14: getAppInfo without id ends with the missing-id error and makes no
\* bus call; with an id it asks the application manager for its listing
\* once, through the installer handle, and when the listing has arrived it
\* answers {appId, appInfo} with the first entry of that id if there is one,
\* and otherwise with an error envelope whose message ends with the id.
C14_GetAppInfoMissingListedOrInvalid ==
    \A c \in ControlCalls :
        ctl[c].method = "getAppInfo" =>
            /\ ctl[c].id = "" =>
                  /\ busCalls[c] = <<>>
                  /\ ctl[c].pc = "done"
                  /\ Sent(c, 1).returnValue = FALSE
                  /\ Sent(c, 1).errorText = "Error: missing 'id' string field"
            /\ ctl[c].id # "" =>
                  busCalls[c] = <<[handle |-> IF root THEN "service" ELSE "serviceRemote",
                                   uri |-> "luna://com.webos.applicationManager/dev/listApps"]>>
            /\ (ctl[c].pc = "done" /\ ctl[c].listed /\ IdListed(c)) =>
                  /\ Sent(c, 1).returnValue = TRUE
                  /\ Sent(c, 1).appId = ctl[c].id
                  /\ \E i \in 1..Len(ctl[c].apps) :
                        /\ Sent(c, 1).appInfo = ctl[c].apps[i]
                        /\ ctl[c].apps[i].id = ctl[c].id
                        /\ \A j \in 1..(i - 1) : ctl[c].apps[j].id # ctl[c].id
            /\ (ctl[c].pc = "done" /\ ctl[c].listed /\ ~IdListed(c)) =>
                  /\ Sent(c, 1).returnValue = FALSE
                  /\ Sent(c, 1).errorText =
                        "Error: Invalid appId, or unsupported application type: " \o ctl[c].id

\* C14 witness: a request for an id the listing holds twice was answered
\* with the first of the two entries.
C14_Witness ==
    \E c \in ControlCalls :
        /\ ctl[c].method = "getAppInfo" /\ ctl[c].pc = "done" /\ ctl[c].listed
        /\ ctl[c].id = "com.example.app"
        /\ Len(ctl[c].apps) = 3
        /\ Sent(c, 1).returnValue = TRUE
        /\ Sent(c, 1).appInfo = App("com.example.app", "Example")

\* C15: the reply to checkRoot carries, beside returnValue, the value true
\* from a root process and false from any other, so that the two replies
\* differ.
C15_CheckRootReplyCarriesPrivilege ==
    \A c \in ControlCalls :
        (ctl[c].method = "checkRoot" /\ ctl[c].pc = "done") =>
            /\ \E k \in (DOMAIN Sent(c, 1)) \ {"returnValue"} : Sent(c, 1)[k] = root
            /\ ~root => Sent(c, 1) # [returnValue |-> TRUE]

\* The positions in the log of install call c that hold message m.
SentAt(c, m) == {i \in 1..Len(sent[c]) : sent[c][i] = m}

\* Every position of a is before every position of b in the log of call c.
AllBefore(c, a, b) == \A i \in SentAt(c, a), j \in SentAt(c, b) : i < j

\* C16: within one install call, checksumming starts only when the copy has
\* completed; the platform installer is subscribed to only when the checksum
\* equals ipkHash; a toast, the patcher and the lowering of the idle timeout
\* happen only when the platform has reported status 30; and the Finished.
\* envelope comes after all of that and after every status and progress
\* message.
C16_InstallStagesInOrder ==
    \A c \in InstallCalls :
        /\ (SentAt(c, StatusMsg("Verifying")) # {} \/ icall[c].checksum # "")
              => icall[c].copied
        /\ AllBefore(c, StatusMsg("Downloading"), ProgressMsg)
        /\ AllBefore(c, ProgressMsg, StatusMsg("Verifying"))
        /\ AllBefore(c, StatusMsg("Verifying"), StatusMsg("Installing"))
        /\ AllBefore(c, StatusMsg("Installing"), SuccessEnvelope("Finished."))
        /\ (icall[c].sub # "none" \/ SentAt(c, StatusMsg("Installing")) # {})
              => (icall[c].copied /\ icall[c].checksum # ""
                  /\ icall[c].checksum = icall[c].ipkHash)
        /\ (toasts[c] # <<>> \/ elevations[c] # <<>> \/ icall[c].lowered)
              => (icall[c].settled = "resolved" /\ icall[c].sub = "cancelled")
        /\ SentAt(c, SuccessEnvelope("Finished.")) # {}
              => /\ SentAt(c, SuccessEnvelope("Finished.")) = {Len(sent[c]) - 1}
                 /\ sent[c][Len(sent[c])] = CancelMsg
                 /\ Cardinality(SentAt(c, ProgressMsg)) = icall[c].progress
                 /\ icall[c].settled = "resolved" /\ icall[c].toastOk
                 /\ icall[c].installedPackageId = kHomebrewChannelPackageId
                       => (/\ icall[c].lowered
                           /\ root => (elevations[c] # <<>> /\ icall[c].patcherStatus = 0))

\* C16 witness: a root service has finished an install of its own id that
\* reported progress: every stage has left its message, in order.
C16_Witness ==
    \E c \in InstallCalls :
        /\ root
        /\ icall[c].installedPackageId = kHomebrewChannelPackageId
        /\ sent[c] = <<StatusMsg("Downloading"), ProgressMsg, StatusMsg("Verifying"),
                       StatusMsg("Installing"), SuccessEnvelope("Finished."), CancelMsg>>
        /\ Len(toasts[c]) = 2 /\ Len(elevations[c]) = 1 /\ idleTimeout = 1

OutcomeFixed(c) ==
    icall[c].settled # "pending"
        => (/\ icall'[c].settled = icall[c].settled
            /\ icall'[c].installedPackageId = icall[c].installedPackageId
            /\ icall[c].pc = "install" => icall'[c].error = icall[c].error)

\* C17 as stated: the step in which installPackage observes a terminal
\* message - status 30, a reported error or a cancellation message - is a
\* step in which its handler cancels the subscription, and once the call is
\* settled no later message changes its outcome.
C17_EveryTerminalMessageCancelsSubscription ==
    [][\A c \in InstallCalls :
          /\ (icall[c].settled = "pending" /\ icall'[c].settled # "pending")
                => icall'[c].sub = "cancelled"
          /\ OutcomeFixed(c)]_vars

\* C17 amended: the handler cancels the subscription in the step in which
\* it observes status 30 or a reported error; on a cancellation message it
\* rejects the call without cancelling the subscription, which the platform
\* has ended; once the call is settled no later message changes its outcome.
C17_ResponseHandlerCancelsSubscription ==
    [][\A c \in InstallCalls :
          /\ (icall[c].settled = "pending" /\ icall'[c].settled = "resolved")
                => icall'[c].sub = "cancelled"
          /\ (icall[c].settled = "pending" /\ icall'[c].settled = "rejected")
                => \/ /\ icall'[c].error.message \in {"errorCode: errorText",
                                                       "errorCode: reason"}
                      /\ icall'[c].sub = "cancelled"
                   \/ /\ icall'[c].error.message \in {"errorText", "cancelled"}
                      /\ icall'[c].sub = "closed"
          /\ OutcomeFixed(c)]_vars

\* C17 witness: a call that a cancellation message rejected has since
\* received a terminal response: that handler cancelled the subscription, and
\* the call is still rejected as cancelled.
C17_Witness ==
    \E c \in InstallCalls :
        /\ icall[c].pc = "install"
        /\ icall[c].settled = "rejected"
        /\ icall[c].error.message = "cancelled"
        /\ icall[c].sub = "cancelled"

\* Call c is in the platform install stage and no terminal message has come.
AwaitingPlatform(c) == icall[c].pc = "install" /\ icall[c].settled = "pending"

FinalKinds == {"success", "error", "cancel"}

\* C18: an install call that waits for the platform installer sends nothing
\* and stays in that stage in every step, whatever non-terminal messages
\* arrive, until a terminal message (status 30, a reported error, a
\* cancellation) has settled it; while it waits it has sent no Finished.
\* envelope, no error envelope and no cancellation.
C18_PendingUntilTerminalMessage ==
    [][\A c \in InstallCalls :
          AwaitingPlatform(c)
            => (/\ \A i \in 1..Len(sent[c]) : sent[c][i].kind \notin FinalKinds
                /\ sent'[c] = sent[c]
                /\ icall'[c].pc = "install"
                /\ toasts'[c] = <<>> /\ elevations'[c] = <<>>)]_vars

\* C18 witness: a call has subscribed to the platform installer and waits.
C18_Witness ==
    \E c \in InstallCalls :
        /\ AwaitingPlatform(c)
        /\ icall[c].sub = "open"
        /\ sent[c] = <<StatusMsg("Downloading"), StatusMsg("Verifying"),
                       StatusMsg("Installing")>>

\* Call c has computed its targetPath.
HasTargetPath(c) == icall[c].pc \notin {"idle", "off"}

\* C19: any two install calls stage to distinct paths, and the checksum a
\* call computes, and so the file it hands to the platform installer, is
\* that of the bytes the call itself downloaded.
C19_StagingPathsDistinctAndOwnBytes ==
    /\ \A c1, c2 \in InstallCalls :
          (c1 # c2 /\ HasTargetPath(c1) /\ HasTargetPath(c2))
            => icall[c1].targetPath # icall[c2].targetPath
    /\ \A c \in InstallCalls :
          icall[c].checksum # "" => icall[c].checksum = Sha256Hex(icall[c].body)

\* The manifest or role file is one the claim calls skippable: missing,
\* unparsable, or without its expected arrays.
ManifestSkippable == ~fs.manifest.exists \/ ~fs.manifest.parsable

RoleSkippable ==
    ~fs.role.exists \/ ~fs.role.parsable \/ ~fs.role.names.present \/ ~fs.role.perms.present

\* C20: the manifest step and the role step never end the patcher run: each
\* hands over to the step after it (the role file, the legacy artifacts and
\* then the rescan decision) without setting an exit status, and a missing,
\* unparsable or array-less file is left as it is and keeps the changes
\* already recorded for the rescan.
C20_ManifestAndRoleStepsNeverEndTheRun ==
    [][/\ ppc = "manifestFile"
          => (/\ ppc' = "roleFile" /\ exitCode' = exitCode
              /\ ManifestSkippable
                    => (fs' = fs /\ written' = written /\ configChanged' = configChanged))
       /\ ppc = "roleFile"
          => (/\ ppc' = "legacyPubServiceFile" /\ exitCode' = exitCode
              /\ RoleSkippable
                    => (fs' = fs /\ written' = written /\ configChanged' = configChanged))]_vars

\* In this step call c applies its write or unlink for field f.
WriteApplied(c, f) ==
    /\ f \in ccall[c].writing
    /\ f \notin ccall'[c].writing
    /\ f \in ccall'[c].reading

\* In this step call c reads the marker of field f for its reply.
ReadTaken(c, f) == f \in ccall[c].reading /\ f \notin ccall'[c].reading

\* C21: with setConfiguration calls interleaving, every applied write leaves
\* the marker of its recognized flag present exactly if the call asked for
\* true, and a marker changes in no other step, so that the final presence
\* is the value of the last applied write and a flag no call names keeps its
\* presence; and the boolean a call reports for a flag, read after the
\* call's own write, is the marker's presence when it is read.
C21_ConcurrentWritesLastWinsAndReportPresence ==
    [][/\ \A c \in ConfigCalls, f \in RecognizedFields :
             WriteApplied(c, f)
                => ((AvailableFlags(f).flag \in prefs') <=> ccall[c].payload[f])
       /\ \A n \in FlagNames :
             ((n \in prefs) # (n \in prefs'))
                => \E c \in ConfigCalls, f \in RecognizedFields :
                      AvailableFlags(f).flag = n /\ WriteApplied(c, f)
       /\ \A c \in ConfigCalls, f \in RecognizedFields :
             (ccall[c].method = "set" /\ ReadTaken(c, f))
                => (/\ f \notin ccall[c].writing
                    /\ ccall'[c].result[f] = (AvailableFlags(f).flag \in prefs))]_vars

====
